---- MODULE Spec2Model ----
(***************************************************************************)
(* Model of nanobot/agent/tools/browser.py: the BrowserSession lifecycle   *)
(* (get_page, reconfigure, save_storage_state, close) and the seven        *)
(* browser tools that share one session.                                   *)
(*                                                                         *)
(* Every coroutine is cut at its await points: the control state `pc`      *)
(* names the engine call the command is suspended on, and one action is    *)
(* the engine's reply to that call followed by the synchronous code up to  *)
(* the next await.  The engine may fail any call.  Background save tasks   *)
(* created by browser_navigate run between those points.                   *)
(***************************************************************************)
EXTENDS Integers, Sequences, FiniteSets, TLC

\* ---------------------------------------------------------------- bounds
MaxDrivers == 1        \* drivers running at the same time
MaxBg == 1             \* background save tasks held at the same time
MaxEls == 1            \* interactive elements of a loaded document
MaxDoc == 3            \* interactive elements of a document given to a snapshot
MaxEpochDrivers == 2    \* drivers running at the same time, launches studied alone

\* ------------------------------------------------------ program constants
None == 0
DefaultTimeoutMs == 30000
MaxElementsCap == 200

\* ------------------------------------------------------------------ state
VARIABLES
    playwright_available,  \* _PLAYWRIGHT_AVAILABLE
    environ,               \* os.environ: the proxy variables that are set
    headless,              \* BrowserSession._headless
    timeout_ms,            \* BrowserSession._timeout_ms
    proxy_server,          \* BrowserSession._proxy_server
    storage_state_path,    \* BrowserSession._storage_state_path
    playwright,            \* BrowserSession._playwright  (driver id or None)
    browser,               \* BrowserSession._browser     (browser id or None)
    context,               \* BrowserSession._context     (context id or None)
    page,                  \* BrowserSession._page        (page id or None)
    pc,                    \* await point the running command is suspended on
    cmd,                   \* the running (pc # "idle") or last finished command
    local,                 \* locals of the running command across an await
    log,                   \* engine calls issued by cmd, in order
    result,                \* outcome of the last finished command
    pre,                   \* session fields when cmd was called
    prev,                  \* "close" when cmd is a close() called right after a close()
    epoch,                 \* drivers started and browsers launched since the last
                           \* teardown (close() or a closing reconfigure()) began
    issued,                \* the highest ref a snapshot has handed out so far
    other,                 \* a second command running get_page() concurrently:
                           \* its await point and its locals
    wrote,                 \* <<the storage state the running or last close() wrote>>
                           \* until a command is called on a session that has a
                           \* context, else <<>>
    drivers,               \* engine: the running drivers
    browsers,              \* engine: the open browser processes
    contexts,              \* engine: the open browsing contexts
    pages,                 \* engine: the open pages
    dom,                   \* engine: document of the session's page
    dirExists,             \* file system: parent directory of the path
    file,                  \* file system: the storage-state file
    bg,                    \* background save tasks (asyncio.create_task)
    bgResult               \* what the background save that just finished returned

constVars ==
    <<playwright_available, environ, timeout_ms, proxy_server, storage_state_path>>
handleVars == <<playwright, browser, context, page>>
callVars == <<cmd, pre, prev, epoch, issued, wrote>>
engineVars == <<drivers, browsers, contexts, pages, dom>>
fsVars == <<dirExists, file>>
bgVars == <<bg>>
vars == <<playwright_available, environ, headless, timeout_ms, proxy_server,
          storage_state_path, playwright, browser, context, page, pc, cmd,
          local, log, result, pre, prev, epoch, issued, wrote, other,
          drivers, browsers, contexts, pages,
          dom, dirExists, file, bg, bgResult>>

\* ------------------------------------------------------------- input sets
StoragePaths == {"", "cookie.json"}
\* A string of proxy settings is its sequence of tokens: blanks and words.
Proxies == {<<>>}
HeadlessArgs == {"none", "true", "false"}   \* headless: bool | None
MaxElementsArgs == {0, 50}                  \* max_elements of browser_snapshot
Refs == {1, MaxEls + 1}                     \* ref of browser_click / browser_type

\* A url is its sequence of lexical tokens.
UrlHttp == <<"http", ":", "//", "example.com">>
UrlFtp == <<"ftp", ":", "//", "bad.com">>
UrlNoHost == <<"https", ":", "//">>
Urls == {UrlHttp, UrlFtp, UrlNoHost}

\* ------------------------------------------------------------ _validate_url
SchemeWords == {"http", "https", "ftp", "HTTP"}
PathDelims == {"/", "?", "#"}
HostWords == {"example.com", "bad.com"}

\* urlsplit lower-cases the scheme
Lower(w) == IF w = "HTTP" THEN "http" ELSE w

\* urlparse(url).scheme
UrlScheme(url) ==
    IF Len(url) >= 2 /\ url[2] = ":" /\ url[1] \in SchemeWords
    THEN Lower(url[1]) ELSE ""

UrlRest(url) == IF UrlScheme(url) = "" THEN url ELSE SubSeq(url, 3, Len(url))

\* urlparse(url).netloc: what follows "//" up to the first of "/", "?", "#";
\* it holds the user info and the port along with the host
UrlNetloc(url) ==
    LET r == UrlRest(url)
        stop == {k \in 2..Len(r) : r[k] \in PathDelims}
        last == IF stop = {} THEN Len(r)
                ELSE (CHOOSE k \in stop : \A j \in stop : k <= j) - 1 IN
    IF Len(r) >= 1 /\ r[1] = "//" THEN SubSeq(r, 2, last) ELSE <<>>

\* urlparse(url).hostname, "" when the netloc names no host
UrlHostname(url) ==
    LET n == UrlNetloc(url) IN
    IF \E i \in 1..Len(n) : n[i] \in HostWords
    THEN n[CHOOSE i \in 1..Len(n) : n[i] \in HostWords] ELSE ""

\* urlsplit raises ValueError("Invalid IPv6 URL") on an unclosed bracket
UrlRaises(url) == \E i \in 1..Len(UrlNetloc(url)) : UrlNetloc(url)[i] = "[bad"

\* variant: the scheme is not checked
_validate_url_NoSchemeCheck(url) ==
    IF UrlRaises(url)
    THEN [ok |-> FALSE, err |-> <<"Invalid IPv6 URL">>]
    ELSE IF UrlNetloc(url) = <<>>
    THEN [ok |-> FALSE, err |-> <<"Missing domain">>]
    ELSE [ok |-> TRUE, err |-> <<>>]

_validate_url(url) ==
    IF UrlRaises(url)
    THEN [ok |-> FALSE, err |-> <<"Invalid IPv6 URL">>]
    ELSE IF UrlScheme(url) \notin {"http", "https"}
    THEN [ok |-> FALSE,
          err |-> <<"Only http/https allowed, got '",
                    IF UrlScheme(url) = "" THEN "none" ELSE UrlScheme(url), "'">>]
    ELSE IF UrlNetloc(url) = <<>>
    THEN [ok |-> FALSE, err |-> <<"Missing domain">>]
    ELSE [ok |-> TRUE, err |-> <<>>]

\* the urls given to _validate_url on its own: [scheme ":"] ["//" [user "@"]
\* [host] [":" port]] [path]
UrlSchemeParts == {<<>>} \cup {<<w, ":">> : w \in SchemeWords}
UrlAuthorities ==
    {u \o h \o p : u \in {<<>>, <<"user@">>},
                   h \in {<<>>, <<"example.com">>, <<"[bad">>},
                   p \in {<<>>, <<":80">>}}
UrlAuthParts == {<<>>, <<"example.com">>} \cup {<<"//">> \o a : a \in UrlAuthorities}
UrlTails == {<<>>, <<"/">>, <<"?">>}
UrlInputs == {sp \o ap \o t : sp \in UrlSchemeParts, ap \in UrlAuthParts, t \in UrlTails}

\* ------------------------------------------------------------ _resolve_proxy
\* str.strip(): the blanks at both ends are removed
RECURSIVE LStrip(_)
LStrip(w) == IF w # <<>> /\ Head(w) = " " THEN LStrip(Tail(w)) ELSE w

RECURSIVE RStrip(_)
RStrip(w) ==
    IF w # <<>> /\ w[Len(w)] = " " THEN RStrip(SubSeq(w, 1, Len(w) - 1)) ELSE w

Strip(w) == RStrip(LStrip(w))

\* os.environ.get(k) or ...: a variable that is not set counts as empty
EnvGet(k) == IF k \in DOMAIN environ THEN environ[k] ELSE <<>>

\* variant: HTTP_PROXY is looked up before HTTPS_PROXY
_resolve_proxy_HttpFirst(proxy) ==
    IF Strip(proxy) # <<>> THEN Strip(proxy)
    ELSE IF EnvGet("HTTP_PROXY") # <<>> THEN EnvGet("HTTP_PROXY")
    ELSE IF EnvGet("HTTPS_PROXY") # <<>> THEN EnvGet("HTTPS_PROXY")
    ELSE <<>>

\* proxy_server.strip() or environ.get("HTTPS_PROXY") or
\* environ.get("HTTP_PROXY") or ""; the empty result adds no proxy to ctx_opts
_resolve_proxy(proxy) ==
    IF Strip(proxy) # <<>> THEN Strip(proxy)
    ELSE IF EnvGet("HTTPS_PROXY") # <<>> THEN EnvGet("HTTPS_PROXY")
    ELSE IF EnvGet("HTTP_PROXY") # <<>> THEN EnvGet("HTTP_PROXY")
    ELSE <<>>

\* the configured values and the environments of the proxy resolution
ProxyArgs == {<<>>, <<" ">>, <<"http://cfg:1">>, <<" ", "http://cfg:1", " ">>}
EnvValues == {<<>>, <<" ">>, <<"http://env:1">>, <<"http://env:2">>}
Environs ==
    UNION {[D -> EnvValues] : D \in SUBSET {"HTTPS_PROXY", "HTTP_PROXY"}}

\* ------------------------------------------------------------------ values
\* Record constructors list their fields in the order in which TLC keeps them
\* (the order of first use in this module), so that a record shared by the
\* workers is never reordered in place.
NoLocal == [target |-> None, storage |-> FALSE, hl |-> FALSE]
\* a storage state: the cookies of a context, or of the file written from it
NoCookies == 0
Cookies == 1
NoFile == [exists |-> FALSE, mode |-> "", data |-> NoCookies]
NoEpoch == [starts |-> 0, launches |-> 0]
NoResult == [kind |-> "none", text |-> <<>>, val |-> None]
Returned(text, val) == [kind |-> "return", text |-> text, val |-> val]
Raised(exc) == [kind |-> "raise", text |-> exc, val |-> None]

\* exceptions are <<type name, message>>
EngineError == <<"Error", "engine call failed">>
NotInstalled == <<"RuntimeError", "Playwright is not installed.">>
NoChromium == <<"RuntimeError", "Chromium browser not found.">>
LocatorTimeout == <<"TimeoutError", "locator timed out">>

\* f"Error: {type(e).__name__}: {e}"
ErrorText(exc) == Returned(<<"Error: ", exc[1], ": ", exc[2]>>, None)

\* one engine call: the method, the engine object it is called on, its arguments
Call(name, target) == [url |-> <<>>, target |-> target, call |-> name, n |-> 0, opt |-> ""]

Snapshot == [headless |-> headless, timeout_ms |-> timeout_ms,
             proxy_server |-> proxy_server, storage_state_path |-> storage_state_path,
             playwright |-> playwright, browser |-> browser, context |-> context,
             page |-> page]

ToolOps == {"navigate", "snapshot", "content", "click", "type", "press", "save_session"}

Cmd(op) == [headless |-> "none", url |-> <<>>, n |-> 0, op |-> op, submit |-> FALSE]

AsBool(h) == h = "true"

\* ------------------------------------------------------------ engine state
\* The engine holds the objects that are open; a handle whose id is not in
\* these tables refers to a closed object.  An id is given again only when
\* the object is closed and nothing refers to it any more.
BrowserLive(b) == b \in DOMAIN browsers
ContextLive(c) == c \in DOMAIN contexts
PageLive(p) == p \in DOMAIN pages

Restrict(f, S) == [x \in S |-> f[x]]
Extend(f, k, v) == [x \in DOMAIN f \cup {k} |-> IF x = k THEN v ELSE f[x]]

\* the engine tables after the browsers B were closed
BrowsersWithout(B) == Restrict(browsers, DOMAIN browsers \ B)
ContextsWithout(B) == Restrict(contexts, {c \in DOMAIN contexts : contexts[c].browser \notin B})
PagesWithout(B) ==
    Restrict(pages, {p \in DOMAIN pages : pages[p].context \in DOMAIN ContextsWithout(B)})

LogTargets(calls) == {log[i].target : i \in {j \in 1..Len(log) : log[j].call \in calls}}
UsedDrivers == drivers \cup {playwright, pre.playwright} \cup LogTargets({"launch", "stop"})
UsedBrowsers ==
    DOMAIN browsers \cup {browser, pre.browser}
        \cup LogTargets({"new_context", "browser_close"})
UsedContexts ==
    DOMAIN contexts \cup {context, pre.context}
        \cup LogTargets({"new_page", "storage_state"})
        \cup {bg[i].target : i \in 1..Len(bg)}
UsedPages == DOMAIN pages \cup {page, pre.page}

\* the id of a new object
Fresh(used) ==
    CHOOSE i \in 1..(Cardinality(used) + 1) : i \notin used /\ \A j \in 1..(i - 1) : j \in used

\* ------------------------------------------------------- storage-state file
\* context.storage_state(path=...) of context c wrote its cookies to the file
WriteFile(f, c) ==
    [exists |-> TRUE, mode |-> IF f.exists THEN f.mode ELSE "644",
     data |-> contexts[c].state]

\* variant: chmod leaves the mode as it is
Chmod_Noop(f) == f

\* path.chmod(0o600)
Chmod(f) == [f EXCEPT !.mode = "600"]

\* outcomes of save_storage_state(): (ok, message)
SaveNoPath == Returned(<<"No storage state path configured.">>, 0)
SaveNotStarted == Returned(<<"Browser not started yet.">>, 0)
\* variant: the exception of the write is not caught
SaveFailed_NoCatch(exc) == Raised(exc)

SaveFailed(exc) == Returned(<<"Save failed: ", exc[2]>>, 0)
SaveOk == Returned(<<"Saved to ", storage_state_path>>, 1)
MkdirError == <<"PermissionError", "mkdir failed">>
ChmodError == <<"PermissionError", "chmod failed">>

\* a task running save_storage_state(): not yet started ("new", line 253) or
\* suspended on storage_state() of context t (line 170)
BgTask(p, t) == [pc |-> p, target |-> t]

\* BrowserSaveSessionTool.execute line 498
SaveSessionText(r) ==
    IF r.val = 1 THEN Returned(r.text, None) ELSE Returned(<<"Error: ">> \o r.text, None)

\* what the caller of save_storage_state() receives
SaveReturn(c, r) == IF c.op = "save_session" THEN SaveSessionText(r) ELSE r

\* one line of the snapshot listing, "<ref>. <label>"
Line(i) == ToString(i) \o ". element"

Min(a, b) == IF a < b THEN a ELSE b

\* variant: the locator matches any element
Locate_Any(d, r) == IF Len(d) > 0 THEN 1 ELSE 0

\* the first element bearing data-nanobot-ref = r, or 0
Locate(d, r) ==
    IF \E i \in 1..Len(d) : d[i] = r
    THEN CHOOSE i \in 1..Len(d) : d[i] = r /\ \A j \in 1..(i - 1) : d[j] # r
    ELSE 0

\* the page script of browser_snapshot: tag the first n matching elements
Tag(d, n) == [i \in 1..Len(d) |-> IF i <= n THEN i ELSE d[i]]

\* variant: the first element of a loaded document still bears marker 1
Document_KeepMarkers(m) == [i \in 1..m |-> IF i = 1 THEN 1 ELSE 0]

\* a freshly loaded document with m interactive elements, none tagged
Document(m) == [i \in 1..m |-> 0]

\* a concurrent get_page() that was not called yet; found is self._page at
\* its call, val the page it returned
NoTask == [pc |-> "none", target |-> None, storage |-> FALSE, hl |-> FALSE,
           val |-> None, found |-> None]

\* ------------------------------------------------------------------- Init
Init ==
    /\ playwright_available \in BOOLEAN
    /\ headless = TRUE
    /\ timeout_ms = DefaultTimeoutMs
    /\ environ = <<>>
    /\ proxy_server \in Proxies
    /\ storage_state_path \in StoragePaths
    /\ playwright = None /\ browser = None /\ context = None /\ page = None
    /\ pc = "idle" /\ cmd = Cmd("init") /\ local = NoLocal /\ log = <<>>
    /\ result = NoResult /\ prev = "other" /\ epoch = NoEpoch /\ issued = 0
    /\ wrote = <<>>
    /\ other = NoTask
    /\ pre = Snapshot
    /\ drivers = {} /\ browsers = <<>> /\ contexts = <<>> /\ pages = <<>>
    /\ dom = <<>>
    /\ dirExists \in (IF storage_state_path = "" THEN {FALSE} ELSE BOOLEAN)
    /\ file \in (IF dirExists THEN {NoFile, [exists |-> TRUE, mode |-> "600", data |-> Cookies]}
                 ELSE {NoFile})
    /\ bg = <<>> /\ bgResult = NoResult

\* --------------------------------------------------- control-flow fragments
\* the command returns or raises to its caller
Finish(res, lg) ==
    /\ pc' = "idle" /\ local' = NoLocal /\ log' = lg /\ result' = res
    /\ bgResult' = NoResult

\* the command issues an engine call and suspends on it
Await(p, loc, lg, call) ==
    /\ pc' = p /\ local' = loc /\ log' = Append(lg, call) /\ result' = NoResult
    /\ bgResult' = NoResult

\* command c runs close(): called directly, by reconfigure() (line 158) or by
\* the reconfigure() of navigate (lines 241-246)
RunsClose(c) ==
    \/ c.op = "close"
    \/ c.op = "reconfigure" /\ page # None
    \/ /\ c.op = "navigate" /\ _validate_url(c.url).ok /\ page # None
       /\ c.headless # "none" /\ AsBool(c.headless) # headless

\* a command is called: remember it and the session it found
Begin(c) ==
    /\ pc = "idle"
    /\ cmd' = c /\ pre' = Snapshot
    /\ epoch' = IF RunsClose(c) THEN NoEpoch ELSE epoch
    /\ issued' = issued
    /\ wrote' = IF RunsClose(c) \/ context # None THEN <<>> ELSE wrote
    /\ prev' = IF cmd.op = "close" /\ c.op = "close" THEN "close" ELSE "other"

\* an exception raised inside get_page(): every tool calls get_page() inside
\* its try block; a direct caller of get_page() receives the exception
RaiseInGetPage(c, exc, lg) ==
    IF c.op \in ToolOps THEN Finish(ErrorText(exc), lg) ELSE Finish(Raised(exc), lg)

\* an exception raised inside close(): nothing catches it, neither in
\* reconfigure() nor in BrowserNavigateTool.execute (line 246 is before try)
RaiseInClose(exc, lg) == Finish(Raised(exc), lg)

\* variant: goto without wait_until
GotoCall_NoWait(pg, url) == [Call("goto", pg) EXCEPT !.url = url]

\* page.goto(url, wait_until="load") (line 250)
GotoCall(pg, url) == [Call("goto", pg) EXCEPT !.url = url, !.opt = "load"]

\* variant: no lower limit
Clamp_NoFloor(n) == IF n > MaxElementsCap THEN MaxElementsCap ELSE n

\* min(max(max_elements, 1), 200) (line 312)
Clamp(n) == IF n < 1 THEN 1 ELSE IF n > MaxElementsCap THEN MaxElementsCap ELSE n

\* the statement after `page = await self._session.get_page()` of command c
AfterGetPage(c, lg, pg) ==
    LET loc == [NoLocal EXCEPT !.target = pg] IN
    CASE c.op = "get_page" -> Finish(Returned(<<>>, pg), lg)
      [] c.op = "navigate" ->
            Await("goto", loc, lg, GotoCall(pg, c.url))
      [] c.op = "snapshot" ->
            Await("evaluate", loc, lg, [Call("evaluate", pg) EXCEPT !.n = Clamp(c.n)])
      [] c.op = "content" -> Await("inner_text", loc, lg, Call("inner_text", pg))
      [] c.op = "click" -> Await("click", loc, lg, [Call("click", pg) EXCEPT !.n = c.n])
      [] c.op = "type" -> Await("fill", loc, lg, [Call("fill", pg) EXCEPT !.n = c.n])
      [] c.op = "press" -> Await("keyboard_press", loc, lg, Call("keyboard_press", pg))

\* get_page() lines 109-117, entered with self._page = pg
GetPageEntry(c, lg, pg) ==
    IF pg # None THEN AfterGetPage(c, lg, pg)
    ELSE IF ~playwright_available THEN RaiseInGetPage(c, NotInstalled, lg)
    ELSE Await("start", NoLocal, lg, Call("start", None))

\* variant: the caller of close() does not store the new flag
CloseEnd_KeepFlag(c, lg) ==
    CASE c.op = "close" -> headless' = headless /\ Finish(Returned(<<>>, None), lg)
      [] c.op = "reconfigure" ->
            headless' = headless /\ Finish(Returned(<<>>, None), lg)
      [] c.op = "navigate" ->
            headless' = headless /\ GetPageEntry(c, lg, None)

\* close() is over: back in the caller (lines 159 and 248)
CloseEnd(c, lg) ==
    CASE c.op = "close" -> headless' = headless /\ Finish(Returned(<<>>, None), lg)
      [] c.op = "reconfigure" ->
            headless' = AsBool(c.headless) /\ Finish(Returned(<<>>, None), lg)
      [] c.op = "navigate" ->
            headless' = AsBool(c.headless) /\ GetPageEntry(c, lg, None)

\* close() lines 193-195, entered with self._playwright = pw
CloseStopStep(c, lg, pw) ==
    /\ playwright' = pw
    /\ IF pw # None
       THEN headless' = headless /\ Await("stop", [NoLocal EXCEPT !.target = pw], lg, Call("stop", pw))
       ELSE CloseEnd(c, lg)

\* close() lines 188-192
CloseBrowserStep(c, lg) ==
    IF browser # None
    THEN /\ UNCHANGED <<playwright, browser, context, page, headless>>
         /\ Await("browser_close", [NoLocal EXCEPT !.target = browser], lg,
                  Call("browser_close", browser))
    ELSE /\ browser' = browser /\ context' = None /\ page' = None
         /\ CloseStopStep(c, lg, playwright)

\* variant: close() without the save of lines 179-186
CloseEntry_NoSave(c, lg) == dirExists' = dirExists /\ CloseBrowserStep(c, lg)

\* close() lines 179-186; path.parent.mkdir may raise inside the try
CloseEntry(c, lg) ==
    IF context # None /\ storage_state_path # ""
    THEN \/ /\ dirExists' = TRUE
            /\ UNCHANGED <<playwright, browser, context, page, headless>>
            /\ Await("close_storage_state", [NoLocal EXCEPT !.target = context], lg,
                     Call("storage_state", context))
         \/ /\ ~dirExists /\ dirExists' = dirExists
            /\ CloseBrowserStep(c, lg)
    ELSE dirExists' = dirExists /\ CloseBrowserStep(c, lg)

\* ------------------------------------------------- BrowserSession operations
\* await session.get_page(), while fewer than k drivers are running
CallGetPageWithin(k) ==
    /\ Begin(Cmd("get_page"))
    /\ page = None => Cardinality(drivers) < k
    /\ GetPageEntry(Cmd("get_page"), <<>>, page)
    /\ UNCHANGED <<constVars, other, headless, handleVars, engineVars, fsVars, bgVars>>

CallGetPage == CallGetPageWithin(MaxDrivers)

\* await session.close()
CallClose ==
    /\ Begin(Cmd("close"))
    /\ CloseEntry(Cmd("close"), <<>>)
    /\ UNCHANGED <<constVars, other, engineVars, file, bgVars>>

\* variant: reconfigure closes whether or not a page is open
CallReconfigure_AlwaysClose ==
    \E x \in {"true", "false"} :
      LET c == [Cmd("reconfigure") EXCEPT !.headless = x] IN
      /\ Begin(c)
      /\ CloseEntry(c, <<>>)
      /\ UNCHANGED <<constVars, other, engineVars, file, bgVars>>

\* await session.reconfigure(x)
CallReconfigure ==
    \E x \in {"true", "false"} :
      LET c == [Cmd("reconfigure") EXCEPT !.headless = x] IN
      /\ Begin(c)
      /\ IF page # None
         THEN CloseEntry(c, <<>>)
         ELSE /\ headless' = AsBool(x)
              /\ Finish(Returned(<<>>, None), <<>>)
              /\ UNCHANGED <<handleVars, dirExists>>
      /\ UNCHANGED <<constVars, other, engineVars, file, bgVars>>

\* ------------------------------------------------------ replies of the engine
\* async_playwright().start() replied (line 117), then lines 119-124
StartReply ==
    /\ pc = "start"
    /\ \/ LET d == Fresh(UsedDrivers) IN
          /\ drivers' = drivers \cup {d}
          /\ playwright' = d
          /\ epoch' = [epoch EXCEPT !.starts = @ + 1]
          /\ Await("launch", [NoLocal EXCEPT !.target = d, !.hl = headless], log,
                   [Call("launch", d) EXCEPT !.opt = IF headless THEN "true" ELSE "false"])
          /\ UNCHANGED <<browser, context, page, browsers, contexts, pages, dom>>
       \/ /\ RaiseInGetPage(cmd, EngineError, log)
          /\ UNCHANGED <<handleVars, engineVars, epoch>>
    /\ UNCHANGED <<constVars, other, headless, cmd, pre, prev, issued, wrote, fsVars, bgVars>>

\* variant: the storage state is passed whenever a path is configured
HasStorageState_PathOnly == storage_state_path # ""

\* line 139: self._storage_state_path and Path(self._storage_state_path).exists()
HasStorageState == storage_state_path # "" /\ file.exists

\* variant: the new context ignores the storage_state option
Preload_Empty(st) == NoCookies

\* the storage state of a context created by new_context(**ctx_opts): that
\* of the file when ctx_opts["storage_state"] names it (lines 139-143)
Preload(st) == IF st THEN file.data ELSE NoCookies

\* chromium.launch() replied (lines 122-130), then lines 132-143
LaunchReply ==
    /\ pc = "launch"
    /\ \/ LET b == Fresh(UsedBrowsers)
              st == HasStorageState IN
          /\ local.target \in drivers
          /\ browsers' = Extend(browsers, b,
                 [headless |-> local.hl, driver |-> local.target])
          /\ browser' = b
          /\ epoch' = [epoch EXCEPT !.launches = @ + 1]
          /\ Await("new_context", [NoLocal EXCEPT !.target = b, !.storage = st], log,
                   [Call("new_context", b) EXCEPT !.opt = IF st THEN "storage_state" ELSE "",
                                                  !.url = _resolve_proxy(proxy_server)])
          /\ UNCHANGED <<playwright, context, page, drivers, contexts, pages, dom>>
       \/ /\ \/ RaiseInGetPage(cmd, EngineError, log)
             \/ RaiseInGetPage(cmd, NoChromium, log)
          /\ UNCHANGED <<handleVars, engineVars, epoch>>
    /\ UNCHANGED <<constVars, other, headless, cmd, pre, prev, issued, wrote, fsVars, bgVars>>

\* browser.new_context() replied (lines 143-149), then line 151
NewContextReply ==
    /\ pc \in {"new_context", "new_context_retry"}
    /\ \/ LET c == Fresh(UsedContexts) IN
          /\ BrowserLive(local.target)
          /\ contexts' = Extend(contexts, c,
                 [browser |-> local.target, state |-> Preload(local.storage)])
          /\ context' = c
          /\ Await("new_page", [NoLocal EXCEPT !.target = c], log, Call("new_page", c))
          /\ UNCHANGED <<playwright, browser, page, drivers, browsers, pages, dom>>
       \/ /\ IF pc = "new_context" /\ local.storage
             THEN Await("new_context_retry", [NoLocal EXCEPT !.target = browser], log,
                        [Call("new_context", browser)
                            EXCEPT !.url = _resolve_proxy(proxy_server)])
             ELSE RaiseInGetPage(cmd, EngineError, log)
          /\ UNCHANGED <<handleVars, engineVars>>
    /\ UNCHANGED <<constVars, other, headless, callVars, fsVars, bgVars>>

\* context.new_page() replied (line 151), then lines 152-153 and the caller
NewPageReply ==
    /\ pc = "new_page"
    /\ \/ LET p == Fresh(UsedPages) IN
          /\ ContextLive(local.target)
          /\ pages' = Extend(pages, p, [context |-> local.target, timeout |-> timeout_ms])
          /\ page' = p
          /\ dom' = <<>>
          /\ AfterGetPage(cmd, log, p)
          /\ UNCHANGED <<playwright, browser, context, drivers, browsers, contexts>>
       \/ /\ RaiseInGetPage(cmd, EngineError, log)
          /\ UNCHANGED <<handleVars, engineVars>>
    /\ UNCHANGED <<constVars, other, headless, callVars, fsVars, bgVars>>

\* context.storage_state(path=...) of close() replied (line 183), then
\* lines 184-189; a failure of the write or of chmod is logged only
CloseStorageStateReply ==
    /\ pc = "close_storage_state"
    /\ \/ /\ ContextLive(local.target)
          /\ \/ file' = Chmod(WriteFile(file, local.target))
             \/ file' = WriteFile(file, local.target)
          /\ wrote' = <<file'.data>>
       \/ file' = file /\ wrote' = wrote
    /\ dirExists' = dirExists
    /\ CloseBrowserStep(cmd, log)
    /\ UNCHANGED <<constVars, other, cmd, pre, prev, epoch, issued, engineVars, bgVars>>

\* browser.close() replied (line 189), then lines 190-194
BrowserCloseReply ==
    /\ pc = "browser_close"
    /\ \/ /\ browsers' = BrowsersWithout({local.target})
          /\ contexts' = ContextsWithout({local.target})
          /\ pages' = PagesWithout({local.target})
          /\ browser' = None /\ context' = None /\ page' = None
          /\ CloseStopStep(cmd, log, playwright)
       \/ /\ RaiseInClose(EngineError, log)
          /\ UNCHANGED <<handleVars, headless, browsers, contexts, pages>>
    /\ UNCHANGED <<constVars, other, callVars, drivers, dom, fsVars, bgVars>>

\* playwright.stop() replied (line 194), then line 195 and the caller
StopReply ==
    /\ pc = "stop"
    /\ \/ LET B == {b \in DOMAIN browsers : browsers[b].driver = local.target} IN
          /\ drivers' = drivers \ {local.target}
          /\ browsers' = BrowsersWithout(B)
          /\ contexts' = ContextsWithout(B)
          /\ pages' = PagesWithout(B)
          /\ playwright' = None
          /\ CloseEnd(cmd, log)
       \/ /\ RaiseInClose(EngineError, log)
          /\ UNCHANGED <<playwright, headless, drivers, browsers, contexts, pages>>
    /\ UNCHANGED <<constVars, other, callVars, browser, context, page, dom, fsVars, bgVars>>

\* ------------------------------------------------------------------- tools
\* BrowserNavigateTool.execute(url, headless) lines 241-249
CallNavigate ==
    \E url \in Urls, h \in HeadlessArgs :
      LET c == [Cmd("navigate") EXCEPT !.url = url, !.headless = h]
          v == _validate_url(url)
          reconf == h # "none" /\ AsBool(h) # headless IN
      /\ Begin(c)
      /\ storage_state_path # "" => Len(bg) < MaxBg
      /\ (v.ok /\ page = None) => Cardinality(drivers) < MaxDrivers
      /\ IF ~v.ok
         THEN /\ Finish(Returned(<<"Error: ">> \o v.err, None), <<>>)
              /\ UNCHANGED <<headless, handleVars, dirExists>>
         ELSE IF reconf /\ page # None
         THEN CloseEntry(c, <<>>)
         ELSE /\ headless' = (IF reconf THEN AsBool(h) ELSE headless)
              /\ GetPageEntry(c, <<>>, page)
              /\ UNCHANGED <<handleVars, dirExists>>
      /\ UNCHANGED <<constVars, other, engineVars, file, bgVars>>

\* the first lines of the execute() of snapshot, content, click, type, press:
\* `page = await self._session.get_page()` inside try
CallTool(c) ==
    /\ Begin(c)
    /\ page = None => Cardinality(drivers) < MaxDrivers
    /\ GetPageEntry(c, <<>>, page)
    /\ UNCHANGED <<constVars, other, headless, handleVars, engineVars, fsVars, bgVars>>

\* BrowserSnapshotTool.execute(max_elements) with max_elements drawn from args
CallSnapshotOf(args) == \E n \in args : CallTool([Cmd("snapshot") EXCEPT !.n = n])

CallSnapshot == CallSnapshotOf(MaxElementsArgs)

CallContent == CallTool(Cmd("content"))

CallClick == \E r \in Refs : CallTool([Cmd("click") EXCEPT !.n = r])

CallType ==
    \E r \in Refs, sb \in BOOLEAN : CallTool([Cmd("type") EXCEPT !.n = r, !.submit = sb])

CallPress == CallTool(Cmd("press"))

\* save_storage_state() lines 163-170, run by task-local command c
SaveEntry(c) ==
    IF storage_state_path = ""
    THEN Finish(SaveReturn(c, SaveNoPath), <<>>) /\ dirExists' = dirExists
    ELSE IF context = None
    THEN Finish(SaveReturn(c, SaveNotStarted), <<>>) /\ dirExists' = dirExists
    ELSE \/ /\ dirExists' = TRUE
            /\ Await("storage_state", [NoLocal EXCEPT !.target = context], <<>>,
                     Call("storage_state", context))
         \/ /\ ~dirExists /\ dirExists' = dirExists
            /\ Finish(SaveReturn(c, SaveFailed(MkdirError)), <<>>)

\* await session.save_storage_state()
CallSaveStorageState ==
    /\ Begin(Cmd("save_storage_state"))
    /\ SaveEntry(Cmd("save_storage_state"))
    /\ UNCHANGED <<constVars, other, headless, handleVars, engineVars, file, bgVars>>

\* BrowserSaveSessionTool.execute line 497
CallSaveSession ==
    /\ Begin(Cmd("save_session"))
    /\ SaveEntry(Cmd("save_session"))
    /\ UNCHANGED <<constVars, other, headless, handleVars, engineVars, file, bgVars>>

\* context.storage_state() of save_storage_state() replied (lines 170-175)
StorageStateReply ==
    /\ pc = "storage_state"
    /\ \/ /\ ContextLive(local.target)
          /\ \/ /\ file' = Chmod(WriteFile(file, local.target))
                /\ Finish(SaveReturn(cmd, SaveOk), log)
             \/ /\ file' = WriteFile(file, local.target)
                /\ Finish(SaveReturn(cmd, SaveFailed(ChmodError)), log)
       \/ /\ file' = file
          /\ Finish(SaveReturn(cmd, SaveFailed(EngineError)), log)
    /\ UNCHANGED <<constVars, other, headless, handleVars, callVars, engineVars, dirExists, bgVars>>

\* variant: the save is spawned whether or not a path is configured
SpawnSave_Always(q) == Append(q, BgTask("new", None))

\* lines 252-253: asyncio.create_task(save_storage_state()) when a path is set
SpawnSave(q) == IF storage_state_path # "" THEN Append(q, BgTask("new", None)) ELSE q

\* page.goto(url, wait_until="load") replied (lines 250-257)
GotoReply ==
    /\ pc = "goto"
    /\ \/ /\ PageLive(local.target)
          /\ \E m \in 0..MaxEls : dom' = Document(m)
          /\ contexts' = [contexts EXCEPT ![pages[local.target].context].state = Cookies]
          /\ bg' = SpawnSave(bg)
          /\ Finish(Returned(<<"Navigated to ">> \o cmd.url, None), log)
       \/ /\ Finish(ErrorText(EngineError), log)
          /\ UNCHANGED <<dom, bg, contexts>>
    /\ UNCHANGED <<constVars, other, headless, handleVars, callVars, drivers, browsers,
                   pages, fsVars>>

\* page.evaluate(script, n) replied (lines 295-317)
EvaluateReply ==
    /\ pc = "evaluate"
    /\ \/ LET n == log[Len(log)].n
              k == Min(n, Len(dom)) IN
          /\ PageLive(local.target)
          /\ dom' = Tag(dom, n)
          /\ issued' = IF k > issued THEN k ELSE issued
          /\ Finish(Returned(IF k = 0 THEN <<"No interactive elements found.">>
                             ELSE [i \in 1..k |-> Line(i)], k), log)
       \/ /\ Finish(ErrorText(EngineError), log)
          /\ dom' = dom /\ issued' = issued
    /\ UNCHANGED <<constVars, other, headless, handleVars, cmd, pre, prev, epoch, wrote,
                   drivers, browsers, contexts, pages, fsVars, bgVars>>

\* page.inner_text(sel) replied (lines 354-360)
InnerTextReply ==
    /\ pc = "inner_text"
    /\ \/ /\ PageLive(local.target)
          /\ Finish(Returned(<<"page text">>, None), log)
       \/ Finish(ErrorText(EngineError), log)
    /\ UNCHANGED <<constVars, other, headless, handleVars, callVars, engineVars, fsVars, bgVars>>

\* locator('[data-nanobot-ref="r"]').first.click() replied (lines 390-394)
ClickReply ==
    /\ pc = "click"
    /\ \/ /\ PageLive(local.target) /\ Locate(dom, cmd.n) # 0
          /\ Finish(Returned(<<"Clicked ref ", ToString(cmd.n)>>, None), log)
       \/ /\ Locate(dom, cmd.n) = 0
          /\ Finish(ErrorText(LocatorTimeout), log)
       \/ Finish(ErrorText(EngineError), log)
    /\ UNCHANGED <<constVars, other, headless, handleVars, callVars, engineVars, fsVars, bgVars>>

\* el.fill("") replied (line 430), then line 431
FillReply ==
    /\ pc = "fill"
    /\ \/ /\ PageLive(local.target) /\ Locate(dom, cmd.n) # 0
          /\ Await("press_sequentially", local, log,
                   [Call("press_sequentially", local.target) EXCEPT !.n = cmd.n])
       \/ /\ Locate(dom, cmd.n) = 0
          /\ Finish(ErrorText(LocatorTimeout), log)
       \/ Finish(ErrorText(EngineError), log)
    /\ UNCHANGED <<constVars, other, headless, handleVars, callVars, engineVars, fsVars, bgVars>>

\* the text that BrowserTypeTool.execute returns (line 434)
TypedText(c) ==
    Returned(<<"Typed into ref ", ToString(c.n),
               IF c.submit THEN " and pressed Enter." ELSE ".">>, None)

\* el.press_sequentially(text) replied (line 431), then lines 432-434
PressSequentiallyReply ==
    /\ pc = "press_sequentially"
    /\ \/ /\ PageLive(local.target) /\ Locate(dom, cmd.n) # 0
          /\ IF cmd.submit
             THEN Await("press_enter", local, log,
                        [Call("press", local.target) EXCEPT !.n = cmd.n, !.opt = "Enter"])
             ELSE Finish(TypedText(cmd), log)
       \/ /\ Locate(dom, cmd.n) = 0
          /\ Finish(ErrorText(LocatorTimeout), log)
       \/ Finish(ErrorText(EngineError), log)
    /\ UNCHANGED <<constVars, other, headless, handleVars, callVars, engineVars, fsVars, bgVars>>

\* el.press("Enter") replied (line 433), then line 434
PressEnterReply ==
    /\ pc = "press_enter"
    /\ \/ /\ PageLive(local.target) /\ Locate(dom, cmd.n) # 0
          /\ Finish(TypedText(cmd), log)
       \/ /\ Locate(dom, cmd.n) = 0
          /\ Finish(ErrorText(LocatorTimeout), log)
       \/ Finish(ErrorText(EngineError), log)
    /\ UNCHANGED <<constVars, other, headless, handleVars, callVars, engineVars, fsVars, bgVars>>

\* page.keyboard.press(k) replied (lines 468-472)
KeyboardPressReply ==
    /\ pc = "keyboard_press"
    /\ \/ /\ PageLive(local.target)
          /\ Finish(Returned(<<"Pressed ", "'Enter'">>, None), log)
       \/ Finish(ErrorText(EngineError), log)
    /\ UNCHANGED <<constVars, other, headless, handleVars, callVars, engineVars, fsVars, bgVars>>

\* ------------------------------------- background save (asyncio.create_task)
Remove(q, i) == SubSeq(q, 1, i - 1) \o SubSeq(q, i + 1, Len(q))

\* the task starts: save_storage_state() lines 163-170
BgStart ==
    \E i \in 1..Len(bg) :
      /\ bg[i].pc = "new"
      /\ IF storage_state_path = ""
         THEN bg' = Remove(bg, i) /\ bgResult' = SaveNoPath /\ dirExists' = dirExists
         ELSE IF context = None
         THEN bg' = Remove(bg, i) /\ bgResult' = SaveNotStarted /\ dirExists' = dirExists
         ELSE \/ /\ dirExists' = TRUE
                 /\ bg' = [bg EXCEPT ![i] = BgTask("storage_state", context)]
                 /\ bgResult' = NoResult
              \/ /\ ~dirExists /\ dirExists' = dirExists
                 /\ bg' = Remove(bg, i) /\ bgResult' = SaveFailed(MkdirError)
      /\ UNCHANGED <<constVars, other, headless, handleVars, pc, local, log, result, callVars,
                     engineVars, file>>

\* context.storage_state() of the task replied: lines 170-175
BgReply ==
    \E i \in 1..Len(bg) :
      /\ bg[i].pc = "storage_state"
      /\ bg' = Remove(bg, i)
      /\ \/ /\ ContextLive(bg[i].target)
            /\ \/ /\ file' = Chmod(WriteFile(file, bg[i].target))
                  /\ bgResult' = SaveOk
               \/ /\ file' = WriteFile(file, bg[i].target)
                  /\ bgResult' = SaveFailed(ChmodError)
         \/ /\ file' = file
            /\ bgResult' = SaveFailed(EngineError)
      /\ UNCHANGED <<constVars, other, headless, handleVars, pc, local, log, result, callVars,
                     engineVars, dirExists>>

Next ==
    \/ CallGetPage
    \/ CallClose
    \/ CallReconfigure
    \/ CallSaveStorageState
    \/ CallNavigate
    \/ CallSnapshot
    \/ CallContent
    \/ CallClick
    \/ CallType
    \/ CallPress
    \/ CallSaveSession
    \/ StartReply
    \/ LaunchReply
    \/ NewContextReply
    \/ NewPageReply
    \/ StorageStateReply
    \/ CloseStorageStateReply
    \/ BrowserCloseReply
    \/ StopReply
    \/ GotoReply
    \/ EvaluateReply
    \/ InnerTextReply
    \/ ClickReply
    \/ FillReply
    \/ PressSequentiallyReply
    \/ PressEnterReply
    \/ KeyboardPressReply
    \/ BgStart
    \/ BgReply

Spec == Init /\ [][Next]_vars

\* ------------------------------------ snapshots of a page that is already open
\* max_elements below, inside and above the range [1, 200]
SnapshotArgs == {-5, 0, 1, 2, 3, 50, 200, 250}

\* a session whose page is open on a document of m elements of which an
\* earlier snapshot tagged the first k
InitSnapshot ==
    /\ playwright_available = TRUE
    /\ headless = TRUE
    /\ timeout_ms = DefaultTimeoutMs
    /\ environ = <<>>
    /\ proxy_server = <<>>
    /\ storage_state_path = ""
    /\ playwright = 1 /\ browser = 1 /\ context = 1 /\ page = 1
    /\ pc = "idle" /\ cmd = Cmd("init") /\ local = NoLocal /\ log = <<>>
    /\ result = NoResult /\ prev = "other" /\ epoch = [starts |-> 1, launches |-> 1]
    /\ wrote = <<>>
    /\ other = NoTask
    /\ pre = Snapshot
    /\ drivers = {1}
    /\ browsers = Extend(<<>>, 1, [headless |-> TRUE, driver |-> 1])
    /\ contexts = Extend(<<>>, 1, [browser |-> 1, state |-> NoCookies])
    /\ pages = Extend(<<>>, 1, [context |-> 1, timeout |-> DefaultTimeoutMs])
    /\ \E m \in 0..MaxDoc, k \in 0..MaxDoc :
         dom = Tag(Document(m), k) /\ issued = Min(k, m)
    /\ dirExists = FALSE /\ file = NoFile
    /\ bg = <<>> /\ bgResult = NoResult

NextSnapshot ==
    \/ CallSnapshotOf(SnapshotArgs)
    \/ EvaluateReply

SpecSnapshot == InitSnapshot /\ [][NextSnapshot]_vars

\* --------------------------------------- snapshots of a page that changes
\* document d with a new, unmarked interactive element at position i
InsertAt(d, i) == SubSeq(d, 1, i - 1) \o <<0>> \o SubSeq(d, i, Len(d))

\* the page adds or removes an interactive element between two commands;
\* querySelectorAll (line 299) reads the document as it is when called
PageChanges ==
    /\ pc = "idle" /\ PageLive(page)
    /\ \/ \E i \in 1..(Len(dom) + 1) : Len(dom) < MaxDoc /\ dom' = InsertAt(dom, i)
       \/ \E i \in 1..Len(dom) : dom' = Remove(dom, i)
    /\ UNCHANGED <<constVars, other, headless, handleVars, pc, local, log, result, callVars,
                   drivers, browsers, contexts, pages, fsVars, bgVars, bgResult>>

\* max_elements below and above the number of elements
RefSnapshotArgs == {1, 50}

NextRefs ==
    \/ CallSnapshotOf(RefSnapshotArgs)
    \/ EvaluateReply
    \/ CallClick
    \/ ClickReply
    \/ PageChanges

SpecRefs == InitSnapshot /\ [][NextRefs]_vars

\* ------------------------------------------------- launches and teardowns
\* the session operations alone, on a session without a storage path
InitEpoch ==
    /\ playwright_available = TRUE
    /\ environ = <<>>
    /\ headless = TRUE
    /\ timeout_ms = DefaultTimeoutMs
    /\ proxy_server = <<>>
    /\ storage_state_path = ""
    /\ playwright = None /\ browser = None /\ context = None /\ page = None
    /\ pc = "idle" /\ cmd = Cmd("init") /\ local = NoLocal /\ log = <<>>
    /\ result = NoResult /\ prev = "other" /\ epoch = NoEpoch /\ issued = 0
    /\ wrote = <<>>
    /\ other = NoTask
    /\ pre = Snapshot
    /\ drivers = {} /\ browsers = <<>> /\ contexts = <<>> /\ pages = <<>>
    /\ dom = <<>>
    /\ dirExists = FALSE /\ file = NoFile
    /\ bg = <<>> /\ bgResult = NoResult

NextEpoch ==
    \/ CallGetPageWithin(MaxEpochDrivers)
    \/ CallClose
    \/ CallReconfigure
    \/ StartReply
    \/ LaunchReply
    \/ NewContextReply
    \/ NewPageReply
    \/ BrowserCloseReply
    \/ StopReply

SpecEpoch == InitEpoch /\ [][NextEpoch]_vars

\* ------------------------------------------ two commands at the same time
\* what a step of the second command leaves alone besides the handles and
\* the engine
otherFrame ==
    <<constVars, headless, pc, cmd, local, log, result, pre, prev, issued, wrote,
      dom, fsVars, bgVars, bgResult>>

\* a second command calls get_page() (lines 109-117) while the first may be
\* suspended in its own
OtherGetPage ==
    /\ other.pc = "none"
    /\ page = None => Cardinality(drivers) < MaxEpochDrivers
    /\ other' = IF page # None
                THEN [NoTask EXCEPT !.pc = "returned", !.found = page, !.val = page]
                ELSE IF ~playwright_available THEN [NoTask EXCEPT !.pc = "raised"]
                ELSE [NoTask EXCEPT !.pc = "start"]
    /\ UNCHANGED <<otherFrame, handleVars, drivers, browsers, contexts, pages, epoch>>

\* async_playwright().start() of the second command replied (lines 117-124)
OtherStartReply ==
    /\ other.pc = "start"
    /\ \/ LET d == Fresh(UsedDrivers \cup {local.target}) IN
          /\ drivers' = drivers \cup {d}
          /\ playwright' = d
          /\ epoch' = [epoch EXCEPT !.starts = @ + 1]
          /\ other' = [other EXCEPT !.pc = "launch", !.target = d, !.hl = headless]
       \/ /\ other' = [other EXCEPT !.pc = "raised"]
          /\ UNCHANGED <<playwright, drivers, epoch>>
    /\ UNCHANGED <<otherFrame, browser, context, page, browsers, contexts, pages>>

\* chromium.launch() of the second command replied (lines 122-143)
OtherLaunchReply ==
    /\ other.pc = "launch"
    /\ \/ LET b == Fresh(UsedBrowsers \cup {local.target}) IN
          /\ other.target \in drivers
          /\ browsers' = Extend(browsers, b,
                 [headless |-> other.hl, driver |-> other.target])
          /\ browser' = b
          /\ epoch' = [epoch EXCEPT !.launches = @ + 1]
          /\ other' = [other EXCEPT !.pc = "new_context", !.target = b,
                                    !.storage = HasStorageState]
       \/ /\ other' = [other EXCEPT !.pc = "raised"]
          /\ UNCHANGED <<browser, browsers, epoch>>
    /\ UNCHANGED <<otherFrame, playwright, context, page, drivers, contexts, pages>>

\* browser.new_context() of the second command replied (lines 143-151)
OtherNewContextReply ==
    /\ other.pc \in {"new_context", "new_context_retry"}
    /\ \/ LET c == Fresh(UsedContexts \cup {local.target}) IN
          /\ BrowserLive(other.target)
          /\ contexts' = Extend(contexts, c,
                 [browser |-> other.target, state |-> Preload(other.storage)])
          /\ context' = c
          /\ other' = [other EXCEPT !.pc = "new_page", !.target = c]
       \/ /\ other' = IF other.pc = "new_context" /\ other.storage
                      THEN [other EXCEPT !.pc = "new_context_retry", !.target = browser,
                                         !.storage = FALSE]
                      ELSE [other EXCEPT !.pc = "raised"]
          /\ UNCHANGED <<context, contexts>>
    /\ UNCHANGED <<otherFrame, playwright, browser, page, drivers, browsers, pages, epoch>>

\* context.new_page() of the second command replied (lines 151-153)
OtherNewPageReply ==
    /\ other.pc = "new_page"
    /\ \/ LET p == Fresh(UsedPages \cup {local.target}) IN
          /\ ContextLive(other.target)
          /\ pages' = Extend(pages, p, [context |-> other.target, timeout |-> timeout_ms])
          /\ page' = p
          /\ other' = [other EXCEPT !.pc = "returned", !.val = p]
       \/ /\ other' = [other EXCEPT !.pc = "raised"]
          /\ UNCHANGED <<page, pages>>
    /\ UNCHANGED <<otherFrame, playwright, browser, context, drivers, browsers,
                   contexts, epoch>>

NextConcurrent ==
    \/ CallGetPageWithin(MaxEpochDrivers)
    \/ StartReply
    \/ LaunchReply
    \/ NewContextReply
    \/ NewPageReply
    \/ OtherGetPage
    \/ OtherStartReply
    \/ OtherLaunchReply
    \/ OtherNewContextReply
    \/ OtherNewPageReply

SpecConcurrent == InitEpoch /\ [][NextConcurrent]_vars

\* ------------------------------------------- proxy resolution and the launch
\* BrowserSession(proxy_server=a) in an environment e (line 100 strips a)
InitProxy ==
    /\ playwright_available = TRUE
    /\ environ \in Environs
    /\ headless = TRUE
    /\ timeout_ms = DefaultTimeoutMs
    /\ proxy_server \in {Strip(a) : a \in ProxyArgs}
    /\ storage_state_path = ""
    /\ playwright = None /\ browser = None /\ context = None /\ page = None
    /\ pc = "idle" /\ cmd = Cmd("init") /\ local = NoLocal /\ log = <<>>
    /\ result = NoResult /\ prev = "other" /\ epoch = NoEpoch /\ issued = 0
    /\ wrote = <<>>
    /\ other = NoTask
    /\ pre = Snapshot
    /\ drivers = {} /\ browsers = <<>> /\ contexts = <<>> /\ pages = <<>>
    /\ dom = <<>>
    /\ dirExists = FALSE /\ file = NoFile
    /\ bg = <<>> /\ bgResult = NoResult

\* _resolve_proxy(a)
CallResolveProxy ==
    \E a \in ProxyArgs :
      /\ Begin([Cmd("_resolve_proxy") EXCEPT !.url = a])
      /\ Finish(Returned(_resolve_proxy(a), None), <<>>)
      /\ UNCHANGED <<constVars, other, headless, handleVars, engineVars, fsVars, bgVars>>

NextProxy ==
    \/ CallResolveProxy
    \/ CallGetPage
    \/ StartReply
    \/ LaunchReply
    \/ NewContextReply
    \/ NewPageReply

SpecProxy == InitProxy /\ [][NextProxy]_vars

\* ------------------------------------------- _validate_url(url) on its own
InitValidate ==
    /\ playwright_available = TRUE
    /\ headless = TRUE
    /\ timeout_ms = DefaultTimeoutMs
    /\ environ = <<>>
    /\ proxy_server = <<>>
    /\ storage_state_path = ""
    /\ playwright = None /\ browser = None /\ context = None /\ page = None
    /\ pc = "idle" /\ local = NoLocal /\ log = <<>>
    /\ cmd \in {[Cmd("_validate_url") EXCEPT !.url = u] : u \in UrlInputs}
    /\ result = NoResult /\ prev = "other" /\ epoch = NoEpoch /\ issued = 0
    /\ wrote = <<>>
    /\ other = NoTask
    /\ pre = Snapshot
    /\ drivers = {} /\ browsers = <<>> /\ contexts = <<>> /\ pages = <<>>
    /\ dom = <<>>
    /\ dirExists = FALSE /\ file = NoFile
    /\ bg = <<>> /\ bgResult = NoResult

\* ok, reason = _validate_url(url)
CallValidateUrl ==
    /\ cmd.op = "_validate_url" /\ result = NoResult
    /\ result' = Returned(_validate_url(cmd.url).err,
                          IF _validate_url(cmd.url).ok THEN 1 ELSE 0)
    /\ UNCHANGED <<constVars, other, headless, handleVars, pc, local, log, callVars,
                   engineVars, fsVars, bgVars, bgResult>>

NextValidate == CallValidateUrl

SpecValidate == InitValidate /\ [][NextValidate]_vars

\* ------------------------------------------------------------------ claims
Idle == pc = "idle"
Handles == <<playwright, browser, context, page>>
IsError(r) == r.kind = "return" /\ Len(r.text) > 0 /\ r.text[1] = "Error: "
Invalid(url) ==
    UrlRaises(url) \/ UrlScheme(url) \notin {"http", "https"} \/ UrlNetloc(url) = <<>>
Reconfigures(c, hl) == c.headless # "none" /\ AsBool(c.headless) # hl

\* C1: between commands the page handle is non-null exactly when the context
\* handle and the browser handle are both non-null.
C1_AllOrNothing == Idle => ((page # None) <=> (context # None /\ browser # None))

\* C2: after any call of close(), however its engine calls ended, the browser,
\* context and page handles are all null.
C2_CloseClearsHandles ==
    (Idle /\ cmd.op = "close") => (browser = None /\ context = None /\ page = None)

\* C3: none of the seven tool commands lets an exception escape: each returns
\* a text, whatever engine call failed, the calls of reconfigure included.
C3_NoEscape == (Idle /\ cmd.op \in ToolOps) => result.kind = "return"

\* the outcomes of save_storage_state(), stated from its messages
Failure(r, text) == r.kind = "return" /\ r.val = 0 /\ r.text = text
Success(r) == r.kind = "return" /\ r.val = 1 /\ r.text = <<"Saved to ", storage_state_path>>
SaveOutcome(r, path, ctx, called) ==
    /\ r.kind = "return"
    /\ path = "" => Failure(r, <<"No storage state path configured.">>)
    /\ (path # "" /\ ctx = None) => Failure(r, <<"Browser not started yet.">>)
    /\ (path # "" /\ ctx # None) =>
          \/ Success(r) /\ called /\ file.exists /\ file.mode = "600"
          \/ Failure(r, <<"Save failed: ", "engine call failed">>) /\ called
          \/ Failure(r, <<"Save failed: ", "chmod failed">>) /\ called /\ file.exists
          \/ Failure(r, <<"Save failed: ", "mkdir failed">>) /\ ~called

SaveTexts ==
    {<<"No storage state path configured.">>, <<"Browser not started yet.">>,
     <<"Save failed: ", "engine call failed">>, <<"Save failed: ", "chmod failed">>,
     <<"Save failed: ", "mkdir failed">>, <<"Saved to ", storage_state_path>>}

\* C4: save_storage_state() never raises and returns (False, "No storage
\* state path configured.") without a path, (False, "Browser not started
\* yet.") with a path and no context, (False, "Save failed: ...") when the
\* write or the chmod failed, and (True, ...) only after the engine wrote the
\* file and it was made owner-only; the same holds of a background save that
\* runs while close() is under way; save_session prefixes a failure with
\* "Error: ".
C4_SaveOutcome ==
    /\ (Idle /\ cmd.op = "save_storage_state") =>
          SaveOutcome(result, pre.storage_state_path, pre.context,
                      log = <<Call("storage_state", pre.context)>>)
    /\ (Idle /\ cmd.op = "save_session") =>
          \E t \in SaveTexts, v \in {0, 1} :
            /\ SaveOutcome([kind |-> "return", text |-> t, val |-> v],
                           pre.storage_state_path, pre.context,
                           log = <<Call("storage_state", pre.context)>>)
            /\ result.kind = "return"
            /\ result.text = IF v = 1 THEN t ELSE <<"Error: ">> \o t
    /\ bgResult # NoResult =>
          /\ bgResult.kind = "return"
          /\ bgResult.text \in SaveTexts \ {<<"No storage state path configured.">>}
          /\ bgResult.val = 1 <=> bgResult.text = <<"Saved to ", storage_state_path>>
          /\ bgResult.val = 1 => (file.exists /\ file.mode = "600")
          /\ bgResult.text = <<"Save failed: ", "chmod failed">> => file.exists

\* a background save ended in failure after close() had closed its context
C4_Witness ==
    /\ bgResult.text = <<"Save failed: ", "engine call failed">>
    /\ cmd.op = "close" /\ pc = "stop"
    /\ storage_state_path # ""

\* C5: reconfigure(x) on a session with an open page leaves the page handle
\* null and, when it returns, the stored headless flag is x.
C5_ReconfigureCloses ==
    (Idle /\ cmd.op = "reconfigure" /\ pre.page # None) =>
        /\ page = None
        /\ result.kind = "return" => headless = AsBool(cmd.headless)

\* C6: reconfigure(x) on a session without an open page issues no engine call
\* and changes nothing but the stored headless flag, which becomes x.
C6_ReconfigureFlagOnly ==
    (Idle /\ cmd.op = "reconfigure" /\ pre.page = None) =>
        /\ log = <<>>
        /\ result.kind = "return"
        /\ Snapshot = [pre EXCEPT !.headless = AsBool(cmd.headless)]

\* the flag changed on a session that holds a driver but no page
C6_Witness ==
    /\ Idle /\ cmd.op = "reconfigure" /\ pre.page = None
    /\ pre.playwright # None /\ headless # pre.headless

\* C7: a close() called right after a close() issues no engine call and leaves
\* the session as it found it, with every handle empty.
C7_CloseIdempotent ==
    (Idle /\ cmd.op = "close" /\ prev = "close") =>
        /\ log = <<>>
        /\ Snapshot = pre
        /\ Handles = <<None, None, None, None>>

\* C8: navigate with a url that fails validation returns an "Error:" text,
\* issues no engine call and leaves the session unchanged, whatever headless
\* argument it was given.
C8_InvalidUrl ==
    (Idle /\ cmd.op = "navigate" /\ Invalid(cmd.url)) =>
        /\ IsError(result)
        /\ log = <<>>
        /\ Snapshot = pre

\* an invalid url with a headless argument that differs, on an open page
C8_Witness ==
    /\ Idle /\ cmd.op = "navigate" /\ Invalid(cmd.url)
    /\ Reconfigures(cmd, headless) /\ page # None

\* C9: navigate with a valid url and no change of headless, on a session with
\* an open page, issues one engine call, goto(url, wait_until="load") on that
\* page, launches nothing, and returns "Navigated to <url>" when the call
\* succeeded.
C9_NavigateOpenPage ==
    (Idle /\ cmd.op = "navigate" /\ ~Invalid(cmd.url) /\ pre.page # None
          /\ ~Reconfigures(cmd, pre.headless)) =>
        /\ Len(log) = 1
        /\ log[1].call = "goto" /\ log[1].target = pre.page
        /\ log[1].url = cmd.url /\ log[1].opt = "load"
        /\ Snapshot = pre
        /\ \/ result = Returned(<<"Navigated to ">> \o cmd.url, None)
           \/ result = ErrorText(EngineError)

\* the navigation succeeded on the page that was open
C9_Witness ==
    /\ Idle /\ cmd.op = "navigate" /\ pre.page # None
    /\ ~Reconfigures(cmd, pre.headless)
    /\ result = Returned(<<"Navigated to ">> \o UrlHttp, None)

\* C10: click(ref) or type(ref, ...) on an open page where no element bears
\* the marker ref returns an "Error:" text and leaves the handles and the
\* headless flag unchanged.
C10_MissingRef ==
    (Idle /\ cmd.op \in {"click", "type"} /\ pre.page # None
          /\ \A i \in 1..Len(dom) : dom[i] # cmd.n) =>
        /\ IsError(result)
        /\ Snapshot = pre

\* type on a marker that a snapshot never issued, on a tagged document
C10_Witness ==
    /\ Idle /\ cmd.op = "type" /\ pre.page # None
    /\ dom = <<1>> /\ cmd.n = 2
    /\ result = ErrorText(LocatorTimeout)

\* C11: a background save is spawned exactly by a navigate whose goto
\* succeeded while a path is configured, in the step in which navigate returns
\* its success text and before the save has run; and no step of a background
\* save, whether it fails or succeeds, changes the running command, its
\* result or the session.
C11_FireAndForget ==
    [][/\ Len(bg') > Len(bg) =>
            /\ pc = "goto" /\ cmd.op = "navigate" /\ storage_state_path # ""
            /\ bg' = Append(bg, BgTask("new", None))
            /\ pc' = "idle"
            /\ result' = Returned(<<"Navigated to ">> \o cmd.url, None)
       /\ (pc = "goto" /\ pc' = "idle" /\ storage_state_path # ""
              /\ result' = Returned(<<"Navigated to ">> \o cmd.url, None)) =>
            Len(bg') = Len(bg) + 1
       /\ (bg' # bg /\ Len(bg') <= Len(bg)) =>
            UNCHANGED <<pc, cmd, pre, prev, local, log, result, headless, playwright,
                        browser, context, page>>]_vars

\* the background save failed after navigate had returned its success text
C11_Witness ==
    /\ Idle /\ cmd.op = "navigate"
    /\ result = Returned(<<"Navigated to ">> \o cmd.url, None)
    /\ bgResult.kind = "return" /\ bgResult.val = 0
    /\ bgResult.text = <<"Save failed: ", "engine call failed">>

\* command c, called on a session with page pg and flag hl, runs close()
Closes(c, pg, hl) ==
    \/ c.op = "close"
    \/ c.op = "reconfigure" /\ pg # None
    \/ c.op = "navigate" /\ ~Invalid(c.url) /\ Reconfigures(c, hl) /\ pg # None

HasCall(lg, name) == \E i \in 1..Len(lg) : lg[i].call = name

\* C12: a close() that finds a context and a path starts with the save: it
\* issues storage_state() on that context as its first engine call, before
\* browser.close(), unless creating the directory already failed; whether
\* the save failed or not, close() does not raise on it and goes on to
\* browser.close() and, once the browser is closed, to stop(); a close() that
\* finds no context or no path issues no storage_state() call.
C12_SaveBeforeClose ==
    [][/\ (pc = "idle" /\ bg' = bg /\ Closes(cmd', page, headless)
              /\ context # None /\ storage_state_path # "") =>
            \/ /\ pc' = "close_storage_state"
               /\ log' = <<Call("storage_state", context)>>
            \/ /\ ~dirExists /\ pc' = "browser_close"
               /\ log' = <<Call("browser_close", browser)>>
       /\ (pc = "close_storage_state" /\ pc' # pc) =>
            /\ pc' = "browser_close"
            /\ log' = Append(log, Call("browser_close", browser))
            /\ result'.kind # "raise"
       /\ (pc = "browser_close" /\ browser' = None) =>
            /\ pc' = "stop" /\ log' = Append(log, Call("stop", playwright))
       /\ (Closes(cmd', pre'.page, pre'.headless)
              /\ (pre'.context = None \/ pre'.storage_state_path = "")) =>
            ~HasCall(log', "storage_state")]_vars

\* a close() whose save failed: nothing was written, the browser is closed,
\* the driver stopped and close() returned
C12_Witness ==
    /\ Idle /\ cmd.op = "close" /\ result.kind = "return"
    /\ pre.context # None /\ pre.storage_state_path # "" /\ ~file.exists
    /\ log = <<Call("storage_state", pre.context), Call("browser_close", pre.browser),
               Call("stop", pre.playwright)>>
    /\ Handles = <<None, None, None, None>>

NewContextCalls(lg) == {i \in 1..Len(lg) : lg[i].call = "new_context"}
LaunchError(r) == r \in {Raised(EngineError), ErrorText(EngineError)}

\* C13: new_context() is given the storage state exactly when a path is
\* configured and the file exists; when new_context() fails with the storage
\* state, it is called once more without it and the launch goes on to
\* new_page() if that call succeeds; when new_context() fails without the
\* storage state, first call or retry, no further call is made and the error
\* reaches the caller of get_page().
C13_StorageRetry ==
    [][/\ (pc = "launch" /\ pc' = "new_context") =>
            /\ log'[Len(log')].call = "new_context"
            /\ log'[Len(log')].opt = "storage_state" <=>
                  (storage_state_path # "" /\ file.exists)
            /\ log'[Len(log')].opt \in {"storage_state", ""}
       /\ (pc = "new_context" /\ pc' # pc /\ context' = context) =>
            IF log[Len(log)].opt = "storage_state"
            THEN /\ pc' = "new_context_retry"
                 /\ log' = Append(log, [Call("new_context", browser)
                                          EXCEPT !.url = log[Len(log)].url])
            ELSE pc' = "idle" /\ log' = log /\ LaunchError(result')
       /\ (pc = "new_context_retry" /\ pc' # pc /\ context' = context) =>
            pc' = "idle" /\ log' = log /\ LaunchError(result')
       /\ (pc \in {"new_context", "new_context_retry"} /\ context' # context) =>
            /\ pc' = "new_page" /\ log' = Append(log, Call("new_page", context'))
       /\ Cardinality(NewContextCalls(log')) <= 2
       /\ Cardinality(NewContextCalls(log')) = 2 =>
            \E i, j \in NewContextCalls(log') :
                i < j /\ log'[i].opt = "storage_state" /\ log'[j].opt = ""]_vars

\* the saved state could not be loaded and the launch succeeded without it
C13_Witness ==
    /\ Idle /\ cmd.op = "get_page" /\ result.kind = "return" /\ page # None
    /\ Cardinality(NewContextCalls(log)) = 2
    /\ file.exists /\ file.data = Cookies /\ contexts[context].state = NoCookies

\* C14: _validate_url rejects a url whose scheme is not http or https with
\* the reason "Only http/https allowed, got '<scheme or none>'", rejects an
\* http/https url whose host is empty with the reason "Missing domain", and
\* accepts an http/https url with a host, with an empty reason.
C14_ValidateUrl ==
    (cmd.op = "_validate_url" /\ result # NoResult) =>
        LET scheme == UrlScheme(cmd.url)
            host == UrlHostname(cmd.url) IN
        /\ scheme \notin {"http", "https"} =>
              /\ result.val = 0
              /\ result.text = <<"Only http/https allowed, got '",
                                 IF scheme = "" THEN "none" ELSE scheme, "'">>
        /\ (scheme \in {"http", "https"} /\ host = "") =>
              result.val = 0 /\ result.text = <<"Missing domain">>
        /\ (scheme \in {"http", "https"} /\ host # "") =>
              result.val = 1 /\ result.text = <<>>

\* C15: snapshot(max_elements) passes n = min(max(max_elements, 1), 200) to
\* the page; on a document of M matching elements it gives the first
\* K = min(n, M) of them the markers 1..K in document order and touches no
\* other element, and returns the K lines numbered 1..K, or the text
\* "No interactive elements found." when K = 0; the markers and the list
\* depend on the document and on n only.
C15_Snapshot ==
    [][(pc = "evaluate" /\ pc' = "idle") =>
          LET n == IF cmd.n < 1 THEN 1 ELSE IF cmd.n > 200 THEN 200 ELSE cmd.n
              M == Len(dom)
              K == IF n < M THEN n ELSE M IN
          /\ log[Len(log)].call = "evaluate" /\ log[Len(log)].n = n
          /\ result' # ErrorText(EngineError) =>
                /\ Len(dom') = M
                /\ \A i \in 1..M : dom'[i] = IF i <= K THEN i ELSE dom[i]
                /\ K = 0 => result'.text = <<"No interactive elements found.">>
                /\ K > 0 => /\ Len(result'.text) = K
                            /\ \A i \in 1..K : result'.text[i] = ToString(i) \o ". element"
                /\ result'.kind = "return"]_vars

\* a snapshot that asked for fewer elements than the document has
C15_Witness ==
    /\ Idle /\ cmd.op = "snapshot" /\ cmd.n = 2 /\ Len(dom) = 3
    /\ dom[1] = 1 /\ dom[2] = 2 /\ dom[3] = 0
    /\ Len(result.text) = 2 /\ result.text[2] = "2. element"

NotBlank(t) == t # " "
IsSet(k) == k \in DOMAIN environ /\ environ[k] # <<>>
\* the proxy that the configured value a stands for in this environment
ExpectedProxy(a) ==
    IF SelectSeq(a, NotBlank) # <<>> THEN SelectSeq(a, NotBlank)
    ELSE IF IsSet("HTTPS_PROXY") THEN environ["HTTPS_PROXY"]
    ELSE IF IsSet("HTTP_PROXY") THEN environ["HTTP_PROXY"]
    ELSE <<>>

\* C16: _resolve_proxy gives the trimmed configured value when that is not
\* empty, else HTTPS_PROXY when set and not empty, else HTTP_PROXY when set
\* and not empty, else the empty string; new_context() of the launch is given
\* that proxy, and none when it is empty.
C16_ResolveProxy ==
    /\ (Idle /\ cmd.op = "_resolve_proxy") => result.text = ExpectedProxy(cmd.url)
    /\ \A i \in 1..Len(log) :
          log[i].call = "new_context" => log[i].url = ExpectedProxy(proxy_server)

\* a blank configured value and an empty HTTPS_PROXY: HTTP_PROXY is used
C16_Witness ==
    /\ Idle /\ cmd.op = "_resolve_proxy" /\ cmd.url = <<" ">>
    /\ "HTTPS_PROXY" \in DOMAIN environ /\ environ["HTTPS_PROXY"] = <<>>
    /\ result.text = <<"http://env:2">>

\* C17: get_page() on a session with an open page returns that page and
\* issues no engine call; and from one teardown (close() or a closing
\* reconfigure()) to the next, at most one driver is started and at most one
\* browser is launched, whatever calls failed in between.
C17_OncePerEpoch ==
    [][/\ epoch'.starts <= 1
       /\ epoch'.launches <= 1
       /\ (pc = "idle" /\ bg' = bg /\ cmd'.op = "get_page" /\ page # None) =>
            /\ pc' = "idle" /\ log' = <<>>
            /\ result' = Returned(<<>>, page)
            /\ UNCHANGED <<playwright, browser, context, page>>]_vars

\* no element of the document bears a ref marker
Unmarked(d) == \A i \in 1..Len(d) : d[i] = 0

\* C18: a successful navigation loads a document in which no element bears
\* a marker; the document stays unmarked until a snapshot replies; and on
\* an unmarked document browser_click and browser_type with a ref that an
\* earlier snapshot issued return an 'Error: ' text, never raise, and leave
\* the session handles of an open session as they were.
C18_NavigateInvalidatesRefs ==
    [][/\ (pc = "goto" /\ pc' = "idle" /\ ~IsError(result')) => Unmarked(dom')
       /\ (Unmarked(dom) /\ pc # "evaluate") => Unmarked(dom')
       /\ (/\ cmd'.op \in {"click", "type"} /\ cmd'.n \in 1..issued
           /\ pc' = "idle" /\ bg' = bg /\ Unmarked(dom)) =>
            /\ IsError(result')
            /\ pre'.page # None =>
                 /\ UNCHANGED <<playwright, browser, context, page>>
                 /\ page = pre'.page]_vars

\* a click on a ref that a snapshot issued fails to find its element on the
\* document loaded by a later navigation
C18_Witness ==
    /\ pc = "idle" /\ cmd.op = "click" /\ cmd.n \in 1..issued
    /\ Len(dom) > 0 /\ Unmarked(dom)
    /\ page # None /\ page = pre.page
    /\ result = ErrorText(LocatorTimeout)

\* C19: when close() (called directly or by a reconfigure) has written the
\* storage state of its context to the configured path, the next context
\* that new_context() creates at its first attempt holds exactly that
\* storage state.
C19_RestoresWhatCloseWrote ==
    [][(pc = "new_context" /\ context' # context /\ wrote # <<>>) =>
          /\ storage_state_path # ""
          /\ local.storage
          /\ contexts'[context'].state = wrote[1]]_vars

\* a relaunching session whose new context was preloaded with the cookies
\* that the last close() had written
C19_Witness ==
    /\ pc = "new_page" /\ wrote = <<Cookies>>
    /\ pre.context = None /\ local.target = context /\ ContextLive(context)
    /\ contexts[context].state = Cookies
    /\ Cardinality(NewContextCalls(log)) = 1

\* a save_storage_state() or a close() is suspended on context.storage_state()
Saving ==
    \/ pc \in {"storage_state", "close_storage_state"}
    \/ \E i \in 1..Len(bg) : bg[i].pc = "storage_state"

\* C20: the parent directory exists whenever save_storage_state() or close()
\* waits for the engine to write the file; a step that changes the file is
\* the reply to such a wait, and it leaves the file with mode 600 unless
\* chmod itself raised, which save_storage_state() reports as a failed save
\* and after which close() leaves a file that did not have mode 600 before;
\* and a save that reports success leaves a file with mode 600.
C20_OwnerOnlyWrites ==
    [][/\ Saving' => dirExists'
       /\ file' # file =>
            /\ Saving /\ dirExists /\ file'.exists
            /\ \/ file'.mode = "600"
               \/ pc = "storage_state" /\ pc' = "idle"
                     /\ result' = SaveReturn(cmd, SaveFailed(ChmodError))
               \/ bg' # bg /\ bgResult' = SaveFailed(ChmodError)
               \/ pc = "close_storage_state" /\ pc' # pc /\ file.mode # "600"
       /\ (pc = "storage_state" /\ pc' = "idle" /\ result' = SaveReturn(cmd, SaveOk)) =>
            file'.exists /\ file'.mode = "600"
       /\ (bg' # bg /\ bgResult' = SaveOk) => file'.exists /\ file'.mode = "600"]_vars

\* close() has created the file with the cookies of its context, under a
\* directory it made, and left it with mode 600
C20_Witness ==
    /\ pc = "browser_close" /\ cmd.op = "close" /\ wrote = <<Cookies>>
    /\ HasCall(log, "storage_state")
    /\ dirExists /\ file.exists /\ file.mode = "600" /\ file.data = Cookies

\* C21: when close() has returned normally, no driver that was started is
\* still running and no browser that was launched is still open, whatever
\* launches failed part-way and were retried before.
C21_NoLeak ==
    (Idle /\ cmd.op = "close" /\ result.kind = "return") =>
        /\ drivers = {}
        /\ browsers = <<>>

\* no two elements of the document bear the same marker
UniqueMarkers(d) == \A i, j \in 1..Len(d) : (d[i] # 0 /\ d[i] = d[j]) => i = j

\* C22: on a page whose elements change between snapshots, at most one
\* element bears any given marker, and when a snapshot has listed K
\* elements the locator of every ref r in 1..K resolves to the r-th
\* matching element, the one the snapshot listed as r.
C22_RefsResolve ==
    [][/\ UniqueMarkers(dom')
       /\ (pc = "evaluate" /\ pc' = "idle" /\ ~IsError(result')) =>
            \A r \in 1..result'.val : Locate(dom', r) = r]_vars

\* the session's page is open in the session's browser, which runs headless
\* or not as hl says
PageRunsAs(hl) ==
    /\ browser # None /\ BrowserLive(browser) /\ browsers[browser].headless = hl
    /\ PageLive(page) /\ ContextLive(pages[page].context)
    /\ contexts[pages[page].context].browser = browser

\* C23: whenever a page is open, the session's browser was launched with the
\* stored headless flag; a navigate with a valid url closes the browser only
\* if its headless argument is given and differs from the stored flag, and
\* otherwise keeps a page that is open; and after a successful navigate with
\* headless = h the page is open in a browser launched with h.
C23_HeadlessMatches ==
    /\ page # None => PageRunsAs(headless)
    /\ (Idle /\ cmd.op = "navigate" /\ ~Invalid(cmd.url)) =>
          /\ HasCall(log, "browser_close") => Reconfigures(cmd, pre.headless)
          /\ (pre.page # None /\ ~Reconfigures(cmd, pre.headless)) =>
                page = pre.page /\ browser = pre.browser /\ headless = pre.headless
          /\ (result = Returned(<<"Navigated to ">> \o cmd.url, None)
                  /\ cmd.headless # "none") =>
                page # None /\ PageRunsAs(AsBool(cmd.headless))

\* a navigate that asked for a headed browser on a headless session with an
\* open page closed it and succeeded in a browser launched headed
C23_Witness ==
    /\ Idle /\ cmd.op = "navigate" /\ pre.page # None /\ pre.headless
    /\ cmd.headless # "none" /\ ~AsBool(cmd.headless)
    /\ HasCall(log, "browser_close") /\ HasCall(log, "launch")
    /\ result = Returned(<<"Navigated to ">> \o cmd.url, None)
    /\ page # None /\ ~headless /\ ~browsers[browser].headless

\* C24: when two commands have both called get_page() on a session without
\* a page and both have returned, one driver was started and one browser
\* launched, and both were given the page the session holds.
C24_OneLaunchForTwo ==
    (/\ Idle /\ cmd.op = "get_page" /\ result.kind = "return" /\ pre.page = None
     /\ other.pc = "returned" /\ other.found = None) =>
        /\ epoch.starts = 1 /\ epoch.launches = 1
        /\ result.val = page /\ other.val = page

====
